---- MODULE Spec2Model ----
(***************************************************************************)
(* Verification model of two solvers of the repository:                    *)
(*   - src/src/day22.rs : the region engine (ReactorCore / RegionTrie /     *)
(*     Region), which keeps a list of disjoint boxes and counts the "on"   *)
(*     volume;                                                             *)
(*   - src/src/day16.rs : the packet decoder (bits / parse_packet /        *)
(*     sum_packet_versions / process_packet).                              *)
(* A Rust panic (failed assert!, unwrap on None, slice index out of range) *)
(* is modelled as an explicit failure value: the run is aborted and no     *)
(* result is produced.                                                     *)
(***************************************************************************)
EXTENDS Integers, Sequences, FiniteSets, TLC

VARIABLES
    root,       \* day22: RegionTrie.root of the ReactorCore being driven
    commands,   \* day22: the commands of the input slice consumed so far
    skipped,    \* day22: part1 only, did the last command fail inside_init()
    panicked,   \* day22: an assert! of the engine failed, the run is aborted
    splits,     \* day22: Region::split called on its own: operands and result
    measured,   \* day22: volume() / count_on() called on its own: region and result
    worklist,   \* day22: the local `regions` of Region::add_region run step by step
    input,      \* day16: the &str handed to the generator bits()
    stream,     \* day16: the BitStream (a sequence of booleans)
    pc,         \* day16: position in the pipeline generator -> part1/part2
    parsed,     \* day16: outcome of parse_packet on the stream
    answer      \* day16: outcome of part1 / part2

vars == <<root, commands, skipped, panicked, splits, measured, worklist, input, stream, pc, parsed, answer>>

day22_vars == <<root, commands, skipped, panicked, splits, measured, worklist>>
day16_vars == <<input, stream, pc, parsed, answer>>

(***************************************************************************)
(* Bounds of the model.                                                    *)
(***************************************************************************)
\* Spec: commands over the grid 0..MaxX x 0..MaxY x 0..MaxZ, MaxCmds of them,
\* and the commands of the repository's tests, MaxTestCmds of them.
MaxX == 2
MaxY == 2
MaxZ == 0
MaxCmds == 3
MaxTestCmds == 4
\* SpecPair: two commands over the cube 0..MaxCoord on every axis.
MaxCoord == 2
\* SpecInit: coordinates reach Far cells beyond the cube of part1, on each side;
\* MaxInitCmds commands.
Far == 1
MaxInitCmds == 1
\* SpecVolume: sub-regions of a region.
MaxSubRegions == 2
\* SpecLoop, SpecInverted: boxes over 0..MaxX x 0..MaxLoopY.
MaxLoopY == 1
\* SpecInverted: commands in a run.
MaxInvertedCmds == 2
\* Iterations the work-list loop of add_region is followed for.
MaxSteps == 200
\* SpecHex: length of the input strings.
MaxHexLen == 2
\* SpecPkt: length of the exhaustive bit streams, groups of a literal,
\* children of an operator, bits cut off a stream.
MaxRawBits == 11
MaxGroups == 3
MaxChildren == 3
MaxCut == 2
\* bits put after a complete packet in place of what followed it.
MaxTail == 2

(***************************************************************************)
(* Small helpers.                                                          *)
(***************************************************************************)
Min2(a, b) == IF a <= b THEN a ELSE b
Max2(a, b) == IF a >= b THEN a ELSE b

\* Iterator::sum, by halves
RECURSIVE SumSeq(_)
SumSeq(s) ==
    IF Len(s) = 0 THEN 0
    ELSE IF Len(s) = 1 THEN s[1]
    ELSE LET mid == Len(s) \div 2
         IN  SumSeq(SubSeq(s, 1, mid)) + SumSeq(SubSeq(s, mid + 1, Len(s)))

\* every sequence over S of length lo..hi
SeqsOf(S, lo, hi) == UNION {[1..n -> S] : n \in lo..hi}

\* Vec::remove(i) that removes nothing
RemoveAt_keeps(s, i) == s

\* Vec::remove(i), 1-based
RemoveAt(s, i) == SubSeq(s, 1, i - 1) \o SubSeq(s, i + 1, Len(s))

(***************************************************************************)
(* day22: Region.  A RangeInclusive<i64> is the pair <<start, end>>.        *)
(***************************************************************************)
\* i64::MIN / i64::MAX are represented by the extreme integers of the
\* checker; every command coordinate of the model lies strictly between.
I64_MIN == -2147483647
I64_MAX == 2147483647

world == <<I64_MIN, I64_MAX>>

region_new(xr, yr, zr, on) ==
    [on |-> on, xr |-> xr, yr |-> yr, zr |-> zr, sub_regions |-> <<>>]

from_command(command) ==
    [on |-> command.turn_on, xr |-> command.xr, yr |-> command.yr,
     zr |-> command.zr, sub_regions |-> <<>>]

is_world(r) == r.xr = world /\ r.yr = world /\ r.zr = world

\* RangeInclusive::is_empty
range_is_empty(r) == r[1] > r[2]

is_empty(r) == range_is_empty(r.xr) \/ range_is_empty(r.yr) \/ range_is_empty(r.zr)

\* impl PartialEq for Region: the six coordinates only
region_eq(a, b) == a.xr = b.xr /\ a.yr = b.yr /\ a.zr = b.zr

\* Vec<Region>::contains, through PartialEq
vec_contains(v, r) == \E i \in 1..Len(v) : region_eq(v[i], r)

contains(self, other) ==
    /\ other.xr[1] >= self.xr[1]
    /\ other.xr[2] <= self.xr[2]
    /\ other.yr[1] >= self.yr[1]
    /\ other.yr[2] <= self.yr[2]
    /\ other.zr[1] >= self.zr[1]
    /\ other.zr[2] <= self.zr[2]

\* intersects with a strict comparison on the x axis
intersects_strict_x(self, other) ==
    /\ self.xr[1] < other.xr[2]
    /\ self.xr[2] >= other.xr[1]
    /\ self.yr[1] <= other.yr[2]
    /\ self.yr[2] >= other.yr[1]
    /\ self.zr[1] <= other.zr[2]
    /\ self.zr[2] >= other.zr[1]

intersects(self, other) ==
    /\ self.xr[1] <= other.xr[2]
    /\ self.xr[2] >= other.xr[1]
    /\ self.yr[1] <= other.yr[2]
    /\ self.yr[2] >= other.yr[1]
    /\ self.zr[1] <= other.zr[2]
    /\ self.zr[2] >= other.zr[1]

\* self_volume with exclusive extents (no 1 +)
self_volume_exclusive(r) ==
    (r.xr[2] - r.xr[1]) * (r.yr[2] - r.yr[1]) * (r.zr[2] - r.zr[1])

self_volume(r) ==
    (1 + r.xr[2] - r.xr[1]) * (1 + r.yr[2] - r.yr[1]) * (1 + r.zr[2] - r.zr[1])

\* volume that leaves the sub-regions in
volume_of_box_alone(r) == IF is_world(r) THEN 0 ELSE self_volume(r)

RECURSIVE volume(_)
volume(r) ==
    IF is_world(r) THEN 0
    ELSE self_volume(r)
           - SumSeq([i \in 1..Len(r.sub_regions) |-> volume(r.sub_regions[i])])

\* find_subregions whose `after` starts on the last cell of the overlap
find_subregions_after_overlaps(a, b) ==
    << <<Min2(a[1], b[1]), Max2(a[1], b[1]) - 1>>,
       <<Max2(a[1], b[1]), Min2(a[2], b[2])>>,
       <<Min2(a[2], b[2]), Max2(a[2], b[2])>> >>

\* find_subregions whose `before` ends on the first cell of the overlap
find_subregions_before_overlaps(a, b) ==
    << <<Min2(a[1], b[1]), Max2(a[1], b[1])>>,
       <<Max2(a[1], b[1]), Min2(a[2], b[2])>>,
       <<1 + Min2(a[2], b[2]), Max2(a[2], b[2])>> >>

\* the closure find_subregions of split: <<before, overlap, after>>
find_subregions(a, b) ==
    << <<Min2(a[1], b[1]), Max2(a[1], b[1]) - 1>>,
       <<Max2(a[1], b[1]), Min2(a[2], b[2])>>,
       <<1 + Min2(a[2], b[2]), Max2(a[2], b[2])>> >>

\* the 27 candidates in the order of the three nested for loops
split_candidates(self, other) ==
    LET xs == find_subregions(self.xr, other.xr)
        ys == find_subregions(self.yr, other.yr)
        zs == find_subregions(self.zr, other.zr)
    IN  [n \in 1..27 |->
            region_new(xs[((n - 1) \div 9) + 1],
                       ys[(((n - 1) \div 3) % 3) + 1],
                       zs[((n - 1) % 3) + 1],
                       FALSE)]

\* the assert! at the end of split and its return value; ok = FALSE when the
\* assert! fails
split_assert(self, other, self_regions, other_regions) ==
    [ok |-> \/ volume(self) =
                 SumSeq([i \in 1..Len(self_regions) |-> volume(self_regions[i])])
            \/ volume(other) =
                 SumSeq([i \in 1..Len(other_regions) |-> volume(other_regions[i])]),
     self_regions |-> self_regions,
     other_regions |-> other_regions]

\* split_loop that asks self before other for a candidate
RECURSIVE split_loop_self_first(_, _, _, _, _, _)
split_loop_self_first(self, other, cands, n, self_regions, other_regions) ==
    IF n > Len(cands) THEN split_assert(self, other, self_regions, other_regions)
    ELSE LET new_region == cands[n] IN
         IF \/ vec_contains(other_regions, new_region)
            \/ vec_contains(self_regions, new_region)
            \/ is_empty(new_region)
         THEN split_loop_self_first(self, other, cands, n + 1, self_regions, other_regions)
         ELSE IF contains(self, new_region)
         THEN split_loop_self_first(self, other, cands, n + 1,
                         Append(self_regions, [new_region EXCEPT !.on = self.on]),
                         other_regions)
         ELSE IF contains(other, new_region)
         THEN split_loop_self_first(self, other, cands, n + 1, self_regions,
                         Append(other_regions, [new_region EXCEPT !.on = other.on]))
         ELSE split_loop_self_first(self, other, cands, n + 1, self_regions, other_regions)

\* the body of the innermost for loop of split, from candidate n on, then
\* the end of split
RECURSIVE split_loop(_, _, _, _, _, _)
split_loop(self, other, cands, n, self_regions, other_regions) ==
    IF n > Len(cands) THEN split_assert(self, other, self_regions, other_regions)
    ELSE LET new_region == cands[n] IN
         IF \/ vec_contains(other_regions, new_region)
            \/ vec_contains(self_regions, new_region)
            \/ is_empty(new_region)
         THEN split_loop(self, other, cands, n + 1, self_regions, other_regions)
         ELSE IF contains(other, new_region)
         THEN split_loop(self, other, cands, n + 1, self_regions,
                         Append(other_regions, [new_region EXCEPT !.on = other.on]))
         ELSE IF contains(self, new_region)
         THEN split_loop(self, other, cands, n + 1,
                         Append(self_regions, [new_region EXCEPT !.on = self.on]),
                         other_regions)
         ELSE split_loop(self, other, cands, n + 1, self_regions, other_regions)

\* Region::split; ok = FALSE when the assert! at its end fails
split(self, other) ==
    split_loop(self, other, split_candidates(self, other), 1, <<>>, <<>>)

\* Iterator::find over sub_regions.iter().enumerate(): first index, 0 for None
find_intersected(sub_regions, new_region) ==
    IF \E i \in 1..Len(sub_regions) : intersects(sub_regions[i], new_region)
    THEN CHOOSE i \in 1..Len(sub_regions) :
            /\ intersects(sub_regions[i], new_region)
            /\ \A j \in 1..(i - 1) : ~intersects(sub_regions[j], new_region)
    ELSE 0

\* the split branch that removes the sibling without storing its pieces
add_region_split_drops_pieces(retained, rest, i, sp) ==
    IF ~sp.ok
    THEN [sub_regions |-> retained, regions |-> rest, panic |-> TRUE]
    ELSE [sub_regions |-> RemoveAt(retained, i),
          regions |-> rest \o sp.other_regions,
          panic |-> FALSE]

\* the split branch that stores the pieces of the sibling and forgets those
\* of the new region
add_region_split_forgets_new(retained, rest, i, sp) ==
    IF ~sp.ok
    THEN [sub_regions |-> retained, regions |-> rest, panic |-> TRUE]
    ELSE [sub_regions |-> RemoveAt(retained \o sp.self_regions, i),
          regions |-> rest,
          panic |-> FALSE]

\* the split branch that keeps the sibling and hangs the pieces of the new
\* region under it
add_region_split_nests(retained, rest, i, sp) ==
    IF ~sp.ok
    THEN [sub_regions |-> retained, regions |-> rest, panic |-> TRUE]
    ELSE [sub_regions |-> [retained EXCEPT ![i].sub_regions = @ \o sp.other_regions],
          regions |-> rest,
          panic |-> FALSE]

\* the branch of the loop body that found the intersecting sibling
\* retained[i], split into sp: the sibling is removed, its pieces stay in the
\* child list and the pieces of the new region go back on the work-list
add_region_split(retained, rest, i, sp) ==
    IF ~sp.ok
    THEN [sub_regions |-> retained, regions |-> rest, panic |-> TRUE]
    ELSE [sub_regions |-> RemoveAt(retained \o sp.self_regions, i),
          regions |-> rest \o sp.other_regions,
          panic |-> FALSE]

\* the loop body that pushes the new region whatever its state
add_region_retained_pushes_all(self_on, new_region, rest, retained, i) ==
    IF i # 0
    THEN add_region_split(retained, rest, i, split(retained[i], new_region))
    ELSE [sub_regions |-> Append(retained, new_region), regions |-> rest, panic |-> FALSE]

\* the loop body that pushes the new region and leaves it on the work-list
add_region_retained_requeues(self_on, new_region, rest, retained, i) ==
    IF i # 0
    THEN add_region_split(retained, rest, i, split(retained[i], new_region))
    ELSE [sub_regions |-> Append(retained, new_region),
          regions |-> Append(rest, new_region),
          panic |-> FALSE]

\* the loop body that pushes the new region into an empty child list only
add_region_retained_pushes_first_only(self_on, new_region, rest, retained, i) ==
    IF i # 0
    THEN add_region_split(retained, rest, i, split(retained[i], new_region))
    ELSE IF new_region.on # self_on /\ retained = <<>>
    THEN [sub_regions |-> Append(retained, new_region), regions |-> rest, panic |-> FALSE]
    ELSE [sub_regions |-> retained, regions |-> rest, panic |-> FALSE]

\* the loop body that never pushes the new region
add_region_retained_never_pushes(self_on, new_region, rest, retained, i) ==
    IF i # 0
    THEN add_region_split(retained, rest, i, split(retained[i], new_region))
    ELSE [sub_regions |-> retained, regions |-> rest, panic |-> FALSE]

\* the loop body once the contained siblings are dropped
add_region_retained(self_on, new_region, rest, retained, i) ==
    IF i # 0
    THEN add_region_split(retained, rest, i, split(retained[i], new_region))
    ELSE IF new_region.on # self_on
    THEN [sub_regions |-> Append(retained, new_region), regions |-> rest, panic |-> FALSE]
    ELSE [sub_regions |-> retained, regions |-> rest, panic |-> FALSE]

\* the retain of the loop body, then the find over what is retained
add_region_retain(self_on, new_region, rest, retained) ==
    add_region_retained(self_on, new_region, rest, retained,
                        find_intersected(retained, new_region))

\* one iteration of the loop without its retain
add_region_step_keeps_contained(self_on, st) ==
    add_region_retain(self_on,
                      st.regions[Len(st.regions)],
                      SubSeq(st.regions, 1, Len(st.regions) - 1),
                      st.sub_regions)

\* one iteration of the while-let loop of Region::add_region on a node with
\* state self_on: st.regions is the work-list (popped from its end),
\* st.sub_regions the child list, st.panic the failed assert! of split
add_region_step(self_on, st) ==
    add_region_retain(self_on,
                      st.regions[Len(st.regions)],
                      SubSeq(st.regions, 1, Len(st.regions) - 1),
                      SelectSeq(st.sub_regions,
                                LAMBDA r : ~contains(st.regions[Len(st.regions)], r)))

\* the while-let loop: at most n iterations from st, stopping when the
\* work-list is empty or an assert! failed (the iterations are run by halves)
RECURSIVE add_region_loop(_, _, _)
add_region_loop(self_on, st, n) ==
    IF st.panic \/ st.regions = <<>> \/ n = 0 THEN st
    ELSE IF n = 1 THEN add_region_step(self_on, st)
    ELSE add_region_loop(self_on, add_region_loop(self_on, st, n \div 2), n - (n \div 2))

\* self once the loop has stopped in st; finished = FALSE when the loop is
\* still running after MaxSteps iterations
add_region_end(self, st) ==
    [region |-> [self EXCEPT !.sub_regions = st.sub_regions],
     panic |-> st.panic,
     finished |-> st.panic \/ st.regions = <<>>]

\* Region::add_region
add_region(self, other) ==
    add_region_end(self,
                   add_region_loop(self.on,
                                   [sub_regions |-> self.sub_regions,
                                    regions |-> <<other>>,
                                    panic |-> FALSE],
                                   MaxSteps))

\* assert_disjoint: TRUE when the assert! passes
assert_disjoint(regions) ==
    ~ \E a \in 1..Len(regions) : \E b \in 1..(a - 1) :
          intersects(regions[a], regions[b]) \/ intersects(regions[b], regions[a])

\* RegionTrie::new
trie_new == region_new(world, world, world, FALSE)

\* RegionTrie::regions
regions_of(trie_root) == trie_root.sub_regions

\* the assert_disjoint call of RegionTrie::add_region on the result res of
\* root.add_region
trie_assert_disjoint(res) ==
    [root |-> res.region,
     panic |-> res.panic \/ ~assert_disjoint(regions_of(res.region)),
     finished |-> res.finished]

\* RegionTrie::add_region
trie_add_region(trie_root, new_region) ==
    trie_assert_disjoint(add_region(trie_root, new_region))

\* RegionTrie::count_on / ReactorCore::count_on
count_on(trie_root) ==
    SumSeq([i \in 1..Len(regions_of(trie_root)) |-> volume(regions_of(trie_root)[i])])

\* ReactorCore::execute_command
execute_command(trie_root, command) == trie_add_region(trie_root, from_command(command))

(***************************************************************************)
(* day22: Command, and the bounded mode of part1.                          *)
(***************************************************************************)
CLAMP == 50

\* clamp_50 that clamps from below only
clamp_50_from_below(r) == <<Max2(r[1], (-1) * CLAMP), Max2(r[2], (-1) * CLAMP)>>

clamp_50(r) == <<Min2(Max2(r[1], (-1) * CLAMP), CLAMP), Min2(Max2(r[2], (-1) * CLAMP), CLAMP)>>

restrict(command) ==
    [xr |-> clamp_50(command.xr), yr |-> clamp_50(command.yr),
     zr |-> clamp_50(command.zr), turn_on |-> command.turn_on]

inside(r) == (r[1] >= -50 /\ r[1] <= 50) \/ (r[2] >= -50 /\ r[2] <= 50)

inside_init(command) == inside(command.xr) /\ inside(command.yr) /\ inside(command.zr)

(***************************************************************************)
(* day16: the packet decoder.  A char is its code point, a &[bool] is a    *)
(* sequence of booleans; the slice &bits[a..b] is SubSeq(bits, a + 1, b).  *)
(* Every function that can panic returns a record whose ok field is FALSE  *)
(* when it does.                                                           *)
(***************************************************************************)
TYPE_SUM == 0
TYPE_PRODUCT == 1
TYPE_MINIMUM == 2
TYPE_MAXIMUM == 3
TYPE_LITERAL == 4
TYPE_GREATER_THAN == 5
TYPE_LESS_THAN == 6
TYPE_EQUAL_TO == 7

LEN_TOTAL_LENGTH == 0
LEN_NUM_SUBPACKETS == 1

\* a & b on non-negative integers
RECURSIVE BitAnd(_, _)
BitAnd(a, b) ==
    IF a = 0 \/ b = 0 THEN 0
    ELSE (a % 2) * (b % 2) + 2 * BitAnd(a \div 2, b \div 2)

\* a << n, for values that stay far below 2^63
Shl(a, n) == a * (2 ^ n)

\* char::to_digit(16) that also takes 'G' and 'g' for a digit
to_digit_lenient(c) ==
    IF c >= 48 /\ c <= 57 THEN c - 48
    ELSE IF c >= 97 /\ c <= 103 THEN c - 97 + 10
    ELSE IF c >= 65 /\ c <= 71 THEN c - 65 + 10
    ELSE -1

\* char::to_digit(16) as called by hex_to_bits: the digit, -1 for None.
\* '0'..'9' are 48..57, 'A'..'F' are 65..70, 'a'..'f' are 97..102.
to_digit(c) ==
    IF c >= 48 /\ c <= 57 THEN c - 48
    ELSE IF c >= 97 /\ c <= 102 THEN c - 97 + 10
    ELSE IF c >= 65 /\ c <= 70 THEN c - 65 + 10
    ELSE -1

\* hex_to_bits without the .rev(): least-significant bit first
hex_to_bits_lsb_first(hex) ==
    LET num == to_digit(hex) IN
    IF num = -1 THEN [ok |-> FALSE, bits |-> <<>>]
    ELSE [ok |-> TRUE, bits |-> [k \in 1..4 |-> BitAnd(num, Shl(1, k - 1)) # 0]]

\* hex_to_bits: (0..4).rev() is 3, 2, 1, 0; expect() panics on None
hex_to_bits(hex) ==
    LET num == to_digit(hex) IN
    IF num = -1 THEN [ok |-> FALSE, bits |-> <<>>]
    ELSE [ok |-> TRUE, bits |-> [k \in 1..4 |-> BitAnd(num, Shl(1, 4 - k)) # 0]]

\* input.chars().flat_map(hex_to_bits).collect(), every char being a digit
RECURSIVE flat_map_hex_to_bits(_)
flat_map_hex_to_bits(chars) ==
    IF chars = <<>> THEN <<>>
    ELSE hex_to_bits(chars[1]).bits \o flat_map_hex_to_bits(Tail(chars))

\* the generator bits(): a panic of hex_to_bits aborts it, nothing is returned
bits(chars) ==
    IF \E i \in 1..Len(chars) : ~hex_to_bits(chars[i]).ok
    THEN [ok |-> FALSE, stream |-> <<>>]
    ELSE [ok |-> TRUE, stream |-> flat_map_hex_to_bits(chars)]

\* to_integer: fold(0, |acc, bit| (acc << 1) | bit); the low bit of acc << 1
\* is 0, so the | adds the bit
RECURSIVE to_integer(_)
to_integer(b) ==
    IF b = <<>> THEN 0
    ELSE Shl(to_integer(SubSeq(b, 1, Len(b) - 1)), 1) + (IF b[Len(b)] THEN 1 ELSE 0)

\* PacketData::Literal / PacketData::Packets
Literal(v) == [kind |-> "Literal", literal |-> v, packets |-> <<>>]
Packets(ps) == [kind |-> "Packets", literal |-> 0, packets |-> ps]

NoPacket == [version |-> 0, type_id |-> 0, data |-> Packets(<<>>)]
ParseFail == [ok |-> FALSE, next |-> 0, packet |-> NoPacket]
DataFail == [ok |-> FALSE, next |-> 0, data |-> Packets(<<>>)]

\* (0..).enumerate().step_by(5).find(|b| !bits[b.1]) from index i on: the
\* index of the first group whose leading bit is 0; -1 when bits[] is indexed
\* past its end (a panic)
RECURSIVE find_last_group(_, _)
find_last_group(b, i) ==
    IF i >= Len(b) THEN -1
    ELSE IF ~b[i + 1] THEN i
    ELSE find_last_group(b, i + 5)

\* chunks_exact(5).map(|c| to_integer(&c[1..])).fold(0, |acc, num| (acc << 4) | num);
\* num is below 16, so the | adds it
RECURSIVE fold_chunks(_, _)
fold_chunks(b, acc) ==
    IF Len(b) < 5 THEN acc
    ELSE fold_chunks(SubSeq(b, 6, Len(b)), Shl(acc, 4) + to_integer(SubSeq(b, 2, 5)))

\* parse_literal whose fold keeps the leading bit of each group
RECURSIVE fold_chunks_with_prefix(_, _)
fold_chunks_with_prefix(b, acc) ==
    IF Len(b) < 5 THEN acc
    ELSE fold_chunks_with_prefix(SubSeq(b, 6, Len(b)),
                                 Shl(acc, 4) + to_integer(SubSeq(b, 1, 5)))

parse_literal_with_prefix(b) ==
    LET last == find_last_group(b, 0)
        next == last + 5
    IN  IF last = -1 \/ next > Len(b)
        THEN [ok |-> FALSE, next |-> 0, literal |-> 0]
        ELSE [ok |-> TRUE, next |-> next,
              literal |-> fold_chunks_with_prefix(SubSeq(b, 1, next), 0)]

\* parse_literal that takes a last group cut short by the end of the slice
parse_literal_past_end(b) ==
    LET last == find_last_group(b, 0)
        next == last + 5
    IN  IF last = -1
        THEN [ok |-> FALSE, next |-> 0, literal |-> 0]
        ELSE [ok |-> TRUE, next |-> next,
              literal |-> fold_chunks(SubSeq(b, 1, Min2(next, Len(b))), 0)]

\* parse_literal: bits[b.1] and bits[..next] panic past the end of the slice
parse_literal(b) ==
    LET last == find_last_group(b, 0)
        next == last + 5
    IN  IF last = -1 \/ next > Len(b)
        THEN [ok |-> FALSE, next |-> 0, literal |-> 0]
        ELSE [ok |-> TRUE, next |-> next, literal |-> fold_chunks(SubSeq(b, 1, next), 0)]

RECURSIVE parse_packet(_)
RECURSIVE parse_n_bits_loop(_, _, _, _, _)
RECURSIVE parse_n_packets_loop(_, _, _, _)

\* the while loop of parse_n_bits, with next_packet and packets so far
parse_n_bits_loop(b, packet_start, n_bits, next_packet, packets) ==
    IF ~(next_packet - packet_start < n_bits)
    THEN [ok |-> TRUE, next |-> next_packet, data |-> Packets(packets)]
    ELSE IF next_packet > Len(b) THEN DataFail
    ELSE LET r == parse_packet(SubSeq(b, next_packet + 1, Len(b))) IN
         IF ~r.ok THEN DataFail
         ELSE parse_n_bits_loop(b, packet_start, n_bits, next_packet + r.next,
                                Append(packets, r.packet))

\* parse_n_bits that keeps parsing children up to the end of the stream
parse_n_bits_to_end(b, packet_start, n_bits) ==
    parse_n_bits_loop(b, packet_start, Len(b) - packet_start, packet_start, <<>>)

parse_n_bits(b, packet_start, n_bits) ==
    parse_n_bits_loop(b, packet_start, n_bits, packet_start, <<>>)

\* the for loop of parse_n_packets, with the iterations left
parse_n_packets_loop(b, left, next_packet, packets) ==
    IF left = 0
    THEN [ok |-> TRUE, next |-> next_packet, data |-> Packets(packets)]
    ELSE IF next_packet > Len(b) THEN DataFail
    ELSE LET r == parse_packet(SubSeq(b, next_packet + 1, Len(b))) IN
         IF ~r.ok THEN DataFail
         ELSE parse_n_packets_loop(b, left - 1, next_packet + r.next,
                                   Append(packets, r.packet))

\* parse_n_packets that returns the bits its children took in place of the
\* offset after them
parse_n_packets_relative(b, packet_start, n_packets) ==
    [parse_n_packets_loop(b, n_packets, packet_start, <<>>) EXCEPT !.next = @ - packet_start]

\* parse_n_packets whose for loop runs once more than n_packets
parse_n_packets_once_more(b, packet_start, n_packets) ==
    parse_n_packets_loop(b, n_packets + 1, packet_start, <<>>)

parse_n_packets(b, packet_start, n_packets) ==
    parse_n_packets_loop(b, n_packets, packet_start, <<>>)

\* parse_packet: the slices bits[0..3], bits[3..6], bits[6..], bits[6..7],
\* bits[7..22], bits[7..18] panic when the slice is shorter
parse_packet(b) ==
    IF Len(b) < 6 THEN ParseFail
    ELSE
      LET version == to_integer(SubSeq(b, 1, 3))
          type_id == to_integer(SubSeq(b, 4, 6))
      IN  IF type_id = TYPE_LITERAL
          THEN LET lit == parse_literal(SubSeq(b, 7, Len(b))) IN
               IF ~lit.ok THEN ParseFail
               ELSE [ok |-> TRUE, next |-> 6 + lit.next,
                     packet |-> [version |-> version, type_id |-> type_id,
                                 data |-> Literal(lit.literal)]]
          ELSE IF Len(b) < 7 THEN ParseFail
          ELSE
            LET length_id == to_integer(SubSeq(b, 7, 7))
                res == IF length_id = LEN_TOTAL_LENGTH
                       THEN IF Len(b) < 22 THEN DataFail
                            ELSE parse_n_bits(b, 22, to_integer(SubSeq(b, 8, 22)))
                       ELSE IF Len(b) < 18 THEN DataFail
                            ELSE parse_n_packets(b, 18, to_integer(SubSeq(b, 8, 18)))
            IN  IF ~res.ok THEN ParseFail
                ELSE [ok |-> TRUE, next |-> res.next,
                      packet |-> [version |-> version, type_id |-> type_id,
                                  data |-> res.data]]

\* sum_packet_versions that does not descend below the children
sum_packet_versions_shallow(packet) ==
    packet.version
      + (IF packet.data.kind = "Literal" THEN 0
         ELSE SumSeq([i \in 1..Len(packet.data.packets) |->
                         packet.data.packets[i].version]))

RECURSIVE sum_packet_versions(_)
sum_packet_versions(packet) ==
    packet.version
      + (IF packet.data.kind = "Literal" THEN 0
         ELSE SumSeq([i \in 1..Len(packet.data.packets) |->
                         sum_packet_versions(packet.data.packets[i])]))

RECURSIVE ProductSeq(_)
ProductSeq(s) == IF s = <<>> THEN 1 ELSE s[1] * ProductSeq(Tail(s))

\* Iterator::min that returns the first element
MinOf_takes_first(s) == s[1]

MinOf(s) == CHOOSE m \in {s[i] : i \in 1..Len(s)} : \A i \in 1..Len(s) : m <= s[i]
MaxOf(s) == CHOOSE m \in {s[i] : i \in 1..Len(s)} : \A i \in 1..Len(s) : m >= s[i]

EvalFail == [ok |-> FALSE, value |-> 0]
Value(v) == [ok |-> TRUE, value |-> v]

\* process_packet whose comparisons accept two children or more
RECURSIVE process_packet_at_least_two(_)
process_packet_at_least_two(packet) ==
    LET t  == packet.type_id
        ps == packet.data.packets
        rs == [i \in 1..Len(ps) |-> process_packet_at_least_two(ps[i])]
        vs == [i \in 1..Len(ps) |-> rs[i].value]
        children_ok == \A i \in 1..Len(ps) : rs[i].ok
    IN  IF t = TYPE_LITERAL
        THEN IF packet.data.kind = "Literal" THEN Value(packet.data.literal) ELSE EvalFail
        ELSE IF packet.data.kind # "Packets" THEN EvalFail
        ELSE IF t = TYPE_SUM
        THEN IF children_ok THEN Value(SumSeq(vs)) ELSE EvalFail
        ELSE IF t = TYPE_PRODUCT
        THEN IF children_ok THEN Value(ProductSeq(vs)) ELSE EvalFail
        ELSE IF t = TYPE_MINIMUM
        THEN IF children_ok /\ Len(ps) > 0 THEN Value(MinOf(vs)) ELSE EvalFail
        ELSE IF t = TYPE_MAXIMUM
        THEN IF children_ok /\ Len(ps) > 0 THEN Value(MaxOf(vs)) ELSE EvalFail
        ELSE IF t = TYPE_GREATER_THAN
        THEN IF Len(ps) >= 2 /\ children_ok
             THEN Value(IF vs[1] > vs[2] THEN 1 ELSE 0) ELSE EvalFail
        ELSE IF t = TYPE_LESS_THAN
        THEN IF Len(ps) >= 2 /\ children_ok
             THEN Value(IF vs[1] < vs[2] THEN 1 ELSE 0) ELSE EvalFail
        ELSE IF t = TYPE_EQUAL_TO
        THEN IF Len(ps) >= 2 /\ children_ok
             THEN Value(IF vs[1] = vs[2] THEN 1 ELSE 0) ELSE EvalFail
        ELSE EvalFail

\* process_packet: Packet::literal(), Packet::packets(), unwrap() and
\* assert_eq! panic; a panic in a child aborts the whole evaluation
RECURSIVE process_packet(_)
process_packet(packet) ==
    LET t  == packet.type_id
        ps == packet.data.packets
        rs == [i \in 1..Len(ps) |-> process_packet(ps[i])]
        vs == [i \in 1..Len(ps) |-> rs[i].value]
        children_ok == \A i \in 1..Len(ps) : rs[i].ok
    IN  IF t = TYPE_LITERAL
        THEN IF packet.data.kind = "Literal" THEN Value(packet.data.literal) ELSE EvalFail
        ELSE IF packet.data.kind # "Packets" THEN EvalFail
        ELSE IF t = TYPE_SUM
        THEN IF children_ok THEN Value(SumSeq(vs)) ELSE EvalFail
        ELSE IF t = TYPE_PRODUCT
        THEN IF children_ok THEN Value(ProductSeq(vs)) ELSE EvalFail
        ELSE IF t = TYPE_MINIMUM
        THEN IF children_ok /\ Len(ps) > 0 THEN Value(MinOf(vs)) ELSE EvalFail
        ELSE IF t = TYPE_MAXIMUM
        THEN IF children_ok /\ Len(ps) > 0 THEN Value(MaxOf(vs)) ELSE EvalFail
        ELSE IF t = TYPE_GREATER_THAN
        THEN IF Len(ps) = 2 /\ children_ok
             THEN Value(IF vs[1] > vs[2] THEN 1 ELSE 0) ELSE EvalFail
        ELSE IF t = TYPE_LESS_THAN
        THEN IF Len(ps) = 2 /\ children_ok
             THEN Value(IF vs[1] < vs[2] THEN 1 ELSE 0) ELSE EvalFail
        ELSE IF t = TYPE_EQUAL_TO
        THEN IF Len(ps) = 2 /\ children_ok
             THEN Value(IF vs[1] = vs[2] THEN 1 ELSE 0) ELSE EvalFail
        ELSE EvalFail

\* part1 / part2 on a BitStream
day16_part1(b) ==
    LET r == parse_packet(b) IN
    IF ~r.ok THEN EvalFail ELSE Value(sum_packet_versions(r.packet))

day16_part2(b) ==
    LET r == parse_packet(b) IN
    IF ~r.ok THEN EvalFail ELSE process_packet(r.packet)

(***************************************************************************)
(* day22: the inputs of the model.                                         *)
(***************************************************************************)
Ranges(coords) == {r \in coords \X coords : r[1] <= r[2]}

CommandsOver(xrs, yrs, zrs) ==
    [xr : xrs, yr : yrs, zr : zrs, turn_on : BOOLEAN]

Cmd(on, x0, x1, y0, y1, z0, z1) ==
    [xr |-> <<x0, x1>>, yr |-> <<y0, y1>>, zr |-> <<z0, z1>>, turn_on |-> on]

\* every command with lo <= hi over the grid
GridCommands == CommandsOver(Ranges(0..MaxX), Ranges(0..MaxY), Ranges(0..MaxZ))

\* every command with lo <= hi over the cube
CubeCommands == CommandsOver(Ranges(0..MaxCoord), Ranges(0..MaxCoord), Ranges(0..MaxCoord))

\* the commands of test::small_test_center, small_test_overlap, small_example
\* and small_test_corner
SmallExample ==
    << Cmd(TRUE, 10, 12, 10, 12, 10, 12),
       Cmd(TRUE, 11, 13, 11, 13, 11, 13),
       Cmd(FALSE, 9, 11, 9, 11, 9, 11),
       Cmd(TRUE, 10, 10, 10, 10, 10, 10) >>

TestCommands ==
    { Cmd(TRUE, -1, 2, -1, 1, -1, 1),
      Cmd(FALSE, 0, 0, 0, 0, 0, 0),
      Cmd(TRUE, 0, 0, 0, 0, 0, 0),
      Cmd(FALSE, 0, 0, 0, 0, 0, 3),
      Cmd(TRUE, -1, 1, -1, 1, -1, 1),
      Cmd(FALSE, 0, 2, 0, 2, 0, 2),
      Cmd(TRUE, 0, 2, 0, 2, 0, 2) }
    \cup {SmallExample[i] : i \in 1..4}

\* coordinates on both sides of the two faces of the cube [-CLAMP, CLAMP],
\* and its centre
InitCoords == ((-CLAMP - Far)..(-CLAMP)) \cup {0} \cup (CLAMP..(CLAMP + Far))

InitCommands == CommandsOver(Ranges(InitCoords), Ranges(InitCoords), Ranges(InitCoords))

AllIn(cmds, pool) == \A i \in 1..Len(cmds) : cmds[i] \in pool

(***************************************************************************)
(* day22: the state machine.  One step is one iteration of the for loop of *)
(* part2 (Execute) or of part1 (ExecuteInit) on the next command.          *)
(***************************************************************************)
Day16Idle == /\ input = <<>> /\ stream = <<>> /\ pc = "idle"
             /\ parsed = ParseFail /\ answer = EvalFail

\* ReactorCore::new
Day22Init == /\ root = trie_new
             /\ commands = <<>>
             /\ skipped = FALSE
             /\ panicked = FALSE
             /\ splits = <<>>
             /\ measured = <<>>
             /\ worklist = <<>>

\* ReactorCore::execute_command(executed), for the input command `command`
Run(command, executed) ==
    \E res \in {execute_command(root, executed)} :
    /\ ~panicked
    /\ commands' = Append(commands, command)
    /\ skipped' = FALSE
    /\ IF res.panic \/ ~res.finished
       THEN root' = root /\ panicked' = TRUE
       ELSE root' = res.root /\ panicked' = FALSE
    /\ UNCHANGED <<splits, measured, worklist>>
    /\ UNCHANGED day16_vars

\* the body of the for loop of part2
Execute(command) == Run(command, command)

\* the body of the for loop of part1
ExecuteInit(command) ==
    IF inside_init(command)
    THEN Run(command, restrict(command))
    ELSE /\ ~panicked
         /\ commands' = Append(commands, command)
         /\ skipped' = TRUE
         /\ UNCHANGED <<root, panicked, splits, measured, worklist>>
         /\ UNCHANGED day16_vars

GridStep == \E command \in GridCommands :
                /\ Len(commands) < MaxCmds
                /\ AllIn(commands, GridCommands)
                /\ Execute(command)

TestStep == \E command \in TestCommands :
                /\ Len(commands) < MaxTestCmds
                /\ AllIn(commands, TestCommands)
                /\ Execute(command)

PairStep == \E command \in CubeCommands :
                /\ Len(commands) < 2
                /\ Execute(command)

InitStep == \E command \in InitCommands :
                /\ Len(commands) < MaxInitCmds
                /\ ExecuteInit(command)

Init == Day22Init /\ Day16Idle

Next == GridStep \/ TestStep

\* part2 over every command sequence of the grid and of the tests' commands
Spec == Init /\ [][Next]_vars

NextPair == PairStep

\* part2 over every pair of commands of the cube
SpecPair == Init /\ [][NextPair]_vars

\* Region::split(self, other) on two boxes of the cube
SplitStep ==
    /\ splits = <<>>
    /\ \E s \in CubeCommands : \E n \in CubeCommands :
                /\ splits' = <<[self |-> from_command(s), other |-> from_command(n),
                                result |-> split(from_command(s), from_command(n))]>>
                /\ UNCHANGED <<root, commands, skipped, panicked, measured, worklist>>
                /\ UNCHANGED day16_vars

NextSplit == SplitStep

\* Region::split over every pair of boxes of the cube
SpecSplit == Init /\ [][NextSplit]_vars

\* regions with up to MaxSubRegions sub-regions, themselves with up to
\* MaxSubRegions sub-regions; volume() does not ask them to be nested boxes
FlatRegions ==
    {region_new(xr, yr, <<0, 0>>, on) :
        xr \in Ranges(0..MaxX), yr \in Ranges(0..1), on \in BOOLEAN}
WithSubRegions(r, subs) == [r EXCEPT !.sub_regions = subs]
InnerPool ==
    { region_new(<<0, 0>>, <<0, 0>>, <<0, 0>>, FALSE),
      region_new(<<1, 2>>, <<0, 1>>, <<0, 0>>, FALSE),
      region_new(<<0, 2>>, <<1, 1>>, <<0, 0>>, TRUE) }
OneLevelRegions ==
    {WithSubRegions(r, subs) : r \in FlatRegions, subs \in SeqsOf(InnerPool, 0, MaxSubRegions)}
MiddlePool ==
    { region_new(<<0, 2>>, <<0, 1>>, <<0, 0>>, TRUE),
      WithSubRegions(region_new(<<0, 2>>, <<0, 1>>, <<0, 0>>, TRUE),
                     <<region_new(<<1, 2>>, <<0, 1>>, <<0, 0>>, FALSE)>>),
      WithSubRegions(region_new(<<0, 1>>, <<0, 1>>, <<0, 0>>, FALSE),
                     <<region_new(<<0, 0>>, <<0, 0>>, <<0, 0>>, FALSE),
                       region_new(<<0, 2>>, <<1, 1>>, <<0, 0>>, TRUE)>>) }
TwoLevelRegions ==
    {WithSubRegions(r, subs) : r \in FlatRegions, subs \in SeqsOf(MiddlePool, 1, MaxSubRegions)}
Roots ==
    {WithSubRegions(trie_new, subs) : subs \in SeqsOf(MiddlePool \cup InnerPool, 0, MaxSubRegions)}

\* Region::volume on a region
VolumeStep ==
    /\ measured = <<>>
    /\ \E r \in OneLevelRegions \cup TwoLevelRegions \cup Roots :
          measured' = <<[of |-> "volume", region |-> r, result |-> volume(r)]>>
    /\ UNCHANGED <<root, commands, skipped, panicked, splits, worklist>>
    /\ UNCHANGED day16_vars

\* RegionTrie::count_on on a trie
CountStep ==
    /\ measured = <<>>
    /\ \E r \in Roots :
          measured' = <<[of |-> "count_on", region |-> r, result |-> count_on(r)]>>
    /\ UNCHANGED <<root, commands, skipped, panicked, splits, worklist>>
    /\ UNCHANGED day16_vars

NextVolume == VolumeStep \/ CountStep

\* volume() and count_on() over regions holding sub-regions
SpecVolume == Init /\ [][NextVolume]_vars

\* the engines reached by an on command and one more command over
\* 0..MaxX x 0..MaxLoopY, and the boxes inserted into them
LoopCommands == CommandsOver(Ranges(0..MaxX), Ranges(0..MaxLoopY), {<<0, 0>>})
LoopRoots ==
    {execute_command(execute_command(trie_new, [c1 EXCEPT !.turn_on = TRUE]).root, c2).root :
        c1 \in LoopCommands, c2 \in LoopCommands}

\* Region::add_region(other) entered on an engine: regions = vec![other]
LoopStart ==
    /\ commands = <<>>
    /\ worklist = <<>>
    /\ \E c \in LoopCommands :
          /\ commands' = <<c>>
          /\ worklist' = <<from_command(c)>>
    /\ root' \in LoopRoots
    /\ UNCHANGED <<skipped, panicked, splits, measured>>
    /\ UNCHANGED day16_vars

\* one iteration of the while-let loop of Region::add_region
LoopStep ==
    /\ worklist # <<>>
    /\ ~panicked
    /\ \E st \in {add_region_step(root.on, [sub_regions |-> root.sub_regions,
                                             regions |-> worklist,
                                             panic |-> FALSE])} :
          /\ root' = [root EXCEPT !.sub_regions = st.sub_regions]
          /\ worklist' = st.regions
          /\ panicked' = st.panic
    /\ UNCHANGED <<commands, skipped, splits, measured>>
    /\ UNCHANGED day16_vars

NextLoop == LoopStart \/ LoopStep

\* the loop of add_region, which runs on while its work-list is not empty
SpecLoop == Init /\ [][NextLoop]_vars

\* every command over 0..MaxX x 0..MaxLoopY, lo > hi included
InvertedCommands ==
    CommandsOver((0..MaxX) \X (0..MaxX), (0..MaxLoopY) \X (0..MaxLoopY), {<<0, 0>>})

InvertedStep == \E command \in InvertedCommands :
                    /\ Len(commands) < MaxInvertedCmds
                    /\ Execute(command)

NextInverted == InvertedStep

\* runs of commands whose ranges are whatever two integers the input gives
SpecInverted == Init /\ [][NextInverted]_vars

NextInit == InitStep

\* part1 over commands around the faces of the cube [-50, 50]^3
SpecInit == Init /\ [][NextInit]_vars

(***************************************************************************)
(* day16: the inputs of the model.                                         *)
(***************************************************************************)
\* the w-bit encoding of n, most-significant bit first
Enc(n, w) == [k \in 1..w |-> (n \div (2 ^ (w - k))) % 2 = 1]

RECURSIVE Concat(_)
Concat(ss) == IF ss = <<>> THEN <<>> ELSE ss[1] \o Concat(Tail(ss))

RECURSIVE EncGroups(_)
EncGroups(gs) ==
    IF Len(gs) = 1 THEN <<FALSE>> \o Enc(gs[1], 4)
    ELSE <<TRUE>> \o Enc(gs[1], 4) \o EncGroups(Tail(gs))

EncLiteral(v, gs) == Enc(v, 3) \o Enc(4, 3) \o EncGroups(gs)
EncOp0(v, t, total_length, body) == Enc(v, 3) \o Enc(t, 3) \o <<FALSE>> \o Enc(total_length, 15) \o body
EncOp1(v, t, num_children, body) == Enc(v, 3) \o Enc(t, 3) \o <<TRUE>> \o Enc(num_children, 11) \o body

\* SpecHex: every string of at most MaxHexLen chars over the hex digits of both
\* cases and the chars next to their ranges: / : @ G ` g
HexChars == (47..58) \cup (64..71) \cup (96..103)
HexInputs == SeqsOf(HexChars, 0, MaxHexLen)

\* the inputs of the tests of day16.rs
TestInputs ==
    {
      <<68, 50, 70, 69, 50, 56>>,   \* D2FE28
      <<69, 69, 48, 48, 68, 52, 48, 67, 56, 50, 51, 48, 54, 48>>,   \* EE00D40C823060
      <<56, 65, 48, 48, 52, 65, 56, 48, 49, 65, 56, 48, 48, 50, 70, 52, 55, 56>>,   \* 8A004A801A8002F478
      <<57, 67, 48, 49, 52, 49, 48, 56, 48, 50, 53, 48, 51, 50, 48, 70, 49, 56, 48, 50, 49, 48, 52, 65, 48, 56>>,   \* 9C0141080250320F1802104A08
      <<67, 50, 48, 48, 66, 52, 48, 65, 56, 50>>,   \* C200B40A82
      <<48, 52, 48, 48, 53, 65, 67, 51, 51, 56, 57, 48>>,   \* 04005AC33890
      <<56, 56, 48, 48, 56, 54, 67, 51, 69, 56, 56, 49, 49, 50>>,   \* 880086C3E88112
      <<67, 69, 48, 48, 67, 52, 51, 68, 56, 56, 49, 49, 50, 48>>,   \* CE00C43D881120
      <<68, 56, 48, 48, 53, 65, 67, 50, 65, 56, 70, 48>>,   \* D8005AC2A8F0
      <<54, 50, 48, 48, 56, 48, 48, 48, 49, 54, 49, 49, 53, 54, 50, 67, 56, 56, 48, 50, 49, 49, 56, 69, 51, 52>>,   \* 620080001611562C8802118E34
      <<67, 48, 48, 49, 53, 48, 48, 48, 48, 49, 54, 49, 49, 53, 65, 50, 69, 48, 56, 48, 50, 70, 49, 56, 50, 51, 52, 48>>,   \* C0015000016115A2E0802F182340
      <<65, 48, 48, 49, 54, 67, 56, 56, 48, 49, 54, 50, 48, 49, 55, 67, 51, 54, 56, 54, 66, 49, 56, 65, 51, 68, 52, 55, 56, 48>>   \* A0016C880162017C3686B18A3D4780
    }

\* SpecPkt: every bit stream of at most MaxRawBits bits
RawStreams == SeqsOf(BOOLEAN, 0, MaxRawBits)

\* literal packets of 1..MaxGroups groups, bare or followed by padding
Nibbles == {0, 7, 14, 15}
Paddings == {<<>>, <<FALSE, FALSE, FALSE>>, <<TRUE, FALSE>>}
LiteralStreams ==
    {EncLiteral(v, gs) \o pad : v \in {0, 6}, gs \in SeqsOf(Nibbles, 1, MaxGroups),
                                pad \in Paddings}

\* operators over at most MaxChildren children taken from ChildPool, whose
\* length field is the true one or off by one, bare or followed by padding
ChildPool ==
    { EncLiteral(1, <<1>>),
      EncLiteral(5, <<1, 4>>),
      EncLiteral(2, <<3>>),
      EncOp1(3, 0, 2, EncLiteral(1, <<1>>) \o EncLiteral(5, <<1, 4>>)),
      EncOp1(2, 6, 1, EncLiteral(1, <<1>>)) }
ChildLists == SeqsOf(ChildPool, 0, MaxChildren)
OpTypes == (0..7) \ {4}
Slack == {-1, 0, 1}
OperatorStreams ==
    {EncOp0(7, t, Max2(0, Len(Concat(cs)) + d), Concat(cs)) \o pad :
        t \in OpTypes, cs \in ChildLists, d \in Slack, pad \in Paddings}
    \cup
    {EncOp1(7, t, Max2(0, Len(cs) + d), Concat(cs)) \o pad :
        t \in OpTypes, cs \in ChildLists, d \in Slack, pad \in Paddings}

\* streams cut short by 1..MaxCut bits
Truncated(S) == {SubSeq(st, 1, Len(st) - c) : st \in {x \in S : Len(x) >= MaxCut}, c \in 1..MaxCut}

Streams ==
    RawStreams \cup {bits(t).stream : t \in TestInputs} \cup LiteralStreams
        \cup OperatorStreams \cup Truncated(OperatorStreams)

(***************************************************************************)
(* day16: the state machine.  Generate is the generator bits(), Part1 and  *)
(* Part2 are part1 and part2 on the BitStream.                             *)
(***************************************************************************)
Generate ==
    /\ pc = "input"
    /\ LET r == bits(input) IN
       /\ stream' = r.stream
       /\ pc' = IF r.ok THEN "bits" ELSE "panic"
    /\ UNCHANGED <<input, parsed, answer>>
    /\ UNCHANGED day22_vars

Part1 ==
    /\ pc = "bits"
    /\ parsed' = parse_packet(stream)
    /\ answer' = day16_part1(stream)
    /\ pc' = "part1"
    /\ UNCHANGED <<input, stream>>
    /\ UNCHANGED day22_vars

Part2 ==
    /\ pc = "bits"
    /\ parsed' = parse_packet(stream)
    /\ answer' = day16_part2(stream)
    /\ pc' = "part2"
    /\ UNCHANGED <<input, stream>>
    /\ UNCHANGED day22_vars

InitHex == /\ Day22Init
           /\ input \in HexInputs
           /\ stream = <<>>
           /\ pc = "input"
           /\ parsed = ParseFail
           /\ answer = EvalFail

NextHex == Generate

\* the generator bits() over short strings
SpecHex == InitHex /\ [][NextHex]_vars

InitPkt == /\ Day22Init
           /\ input = <<>>
           /\ stream \in Streams
           /\ pc = "bits"
           /\ parsed = ParseFail
           /\ answer = EvalFail

NextPkt == Part1 \/ Part2

\* part1 and part2 over the bit streams of Streams
SpecPkt == InitPkt /\ [][NextPkt]_vars

(***************************************************************************)
(* day22: reference semantics, stated on unit cells and on intervals,      *)
(* independently of the engine.                                            *)
(***************************************************************************)
CellsOf(xr, yr, zr) ==
    {<<x, y, z>> : x \in xr[1]..xr[2], y \in yr[1]..yr[2], z \in zr[1]..zr[2]}

BoxCells(b) == CellsOf(b.xr, b.yr, b.zr)

\* the cells that are on after the commands cmds, each command setting every
\* cell of its box, later commands overriding earlier ones
RECURSIVE RefCells(_)
RefCells(cmds) ==
    IF cmds = <<>> THEN {}
    ELSE LET c    == cmds[Len(cmds)]
             prev == RefCells(SubSeq(cmds, 1, Len(cmds) - 1))
         IN  IF c.turn_on THEN prev \cup BoxCells(c) ELSE prev \ BoxCells(c)

\* the cells covered by a stored region that is tagged on
OnCells(trie_root) ==
    UNION {BoxCells(trie_root.sub_regions[i]) :
              i \in {j \in 1..Len(trie_root.sub_regions) : trie_root.sub_regions[j].on}}

Extent(r) == r[2] - r[1] + 1
InterExtent(a, b) == Max2(0, Min2(a[2], b[2]) - Max2(a[1], b[1]) + 1)
Vol(b) == Extent(b.xr) * Extent(b.yr) * Extent(b.zr)
InterVol(a, b) ==
    InterExtent(a.xr, b.xr) * InterExtent(a.yr, b.yr) * InterExtent(a.zr, b.zr)

LastCommand == commands[Len(commands)]

\* C1: after any sequence of commands with lo <= hi, executed in input order
\* on a fresh engine, the run has not aborted and count_on() is the number of
\* unit cells that are on under the reference semantics.
CountOnMatchesReference ==
    /\ ~panicked
    /\ count_on(root) = Cardinality(RefCells(commands))

\* C1 witness: the four commands of test::small_example have been executed and
\* count_on() is 39.
SmallExampleCounted ==
    /\ commands = SmallExample
    /\ count_on(root) = 39

\* C2: after every insertion the siblings stored under the root share no unit
\* cell pairwise, and no assertion (assert_disjoint included) has failed.
SiblingsPairwiseDisjoint ==
    /\ ~panicked
    /\ \A a \in 1..Len(root.sub_regions) : \A b \in 1..(a - 1) :
          BoxCells(root.sub_regions[a]) \cap BoxCells(root.sub_regions[b]) = {}

\* C2 witness: three commands in, the last one an off box cutting into stored
\* siblings, at least four siblings are stored.
ManySiblingsStored ==
    /\ Len(commands) = 3
    /\ ~LastCommand.turn_on
    /\ Len(root.sub_regions) >= 4
    /\ \E i \in 1..Len(root.sub_regions) : root.sub_regions[i].xr # LastCommand.xr

\* the box of c and the cube [-CLAMP, CLAMP]^3 have a cell in common
SharesCellWithCube(c) ==
    /\ Max2(c.xr[1], -CLAMP) <= Min2(c.xr[2], CLAMP)
    /\ Max2(c.yr[1], -CLAMP) <= Min2(c.yr[2], CLAMP)
    /\ Max2(c.zr[1], -CLAMP) <= Min2(c.zr[2], CLAMP)

\* C3 (as claimed): in bounded mode a command is skipped exactly when its box
\* shares no cell with the cube [-50, 50]^3.
SkippedExactlyWhenOutside ==
    commands # <<>> => (skipped <=> ~SharesCellWithCube(LastCommand))

\* C4: executing an on command whose box is already entirely on does not abort
\* the run and leaves count_on() unchanged.
ReinsertingOnKeepsCount ==
    [][ ( /\ commands' # commands
          /\ commands'[Len(commands')].turn_on
          /\ BoxCells(commands'[Len(commands')]) \subseteq OnCells(root) )
        => ( ~panicked' /\ count_on(root') = count_on(root) ) ]_vars

\* C4 witness: the third command is an on box that was already entirely on,
\* lying across the boxes of the first two on commands and inside neither.
ReinsertedAcrossTwo ==
    /\ Len(commands) = 3
    /\ commands[1].turn_on /\ commands[2].turn_on /\ commands[3].turn_on
    /\ BoxCells(commands[3]) \subseteq RefCells(SubSeq(commands, 1, 2))
    /\ ~(BoxCells(commands[3]) \subseteq BoxCells(commands[1]))
    /\ ~(BoxCells(commands[3]) \subseteq BoxCells(commands[2]))
    /\ count_on(root) = Cardinality(RefCells(SubSeq(commands, 1, 2)))

\* C5: on A then off B on a fresh engine gives count_on() = vol(A) - vol(A /\ B).
OnThenOffCount ==
    (Len(commands) = 2 /\ commands[1].turn_on /\ ~commands[2].turn_on)
    => ( /\ ~panicked
         /\ count_on(root) = Vol(commands[1]) - InterVol(commands[1], commands[2]) )

\* C5 witness: B overlaps a corner of A and sticks out of it on every axis.
OffCornerCut ==
    /\ commands = <<Cmd(TRUE, 0, 1, 0, 1, 0, 1), Cmd(FALSE, 1, 2, 1, 2, 1, 2)>>
    /\ count_on(root) = 7

\* C6: on A then on B on a fresh engine gives
\* count_on() = vol(A) + vol(B) - vol(A /\ B).
OnThenOnCount ==
    (Len(commands) = 2 /\ commands[1].turn_on /\ commands[2].turn_on)
    => ( /\ ~panicked
         /\ count_on(root) = Vol(commands[1]) + Vol(commands[2])
                               - InterVol(commands[1], commands[2]) )

\* C6 witness: B overlaps a corner of A; the shared cell is counted once.
OnCornerOverlap ==
    /\ commands = <<Cmd(TRUE, 0, 1, 0, 1, 0, 1), Cmd(TRUE, 1, 2, 1, 2, 1, 2)>>
    /\ count_on(root) = 15

(***************************************************************************)
(* day16: reference decoding, stated on the positions of the stream,       *)
(* independently of the decoder.                                           *)
(***************************************************************************)
\* the number written by the bits b, most-significant bit first
RefNat(b) == SumSeq([k \in 1..Len(b) |-> IF b[k] THEN 2 ^ (Len(b) - k) ELSE 0])

\* the upper-case hexadecimal digits in order of value, and a digit's value
UpperHexDigits == <<48, 49, 50, 51, 52, 53, 54, 55, 56, 57, 65, 66, 67, 68, 69, 70>>
UpperHex == {UpperHexDigits[i] : i \in 1..16}
LowerHex == 97..102
AnyCaseHex == UpperHex \cup LowerHex
RefDigit(c) ==
    LET u == IF c \in LowerHex THEN c - 32 ELSE c
    IN  (CHOOSE i \in 1..16 : UpperHexDigits[i] = u) - 1

Generated == pc \in {"bits", "panic"}
Parsed == pc \in {"part1", "part2"}

IsType0Operator(st) ==
    Len(st) >= 22 /\ RefNat(SubSeq(st, 4, 6)) # 4 /\ ~st[7]
DeclaredLength(st) == RefNat(SubSeq(st, 8, 22))

\* C7 (as claimed): parse_packet never returns a length-type-0 operator whose
\* children consumed more bits than the declared total_length_in_bits.
ChildrenWithinBudget ==
    (Parsed /\ parsed.ok /\ IsType0Operator(stream))
    => parsed.next - 22 <= DeclaredLength(stream)

\* C8 (as claimed): bits() fails, returning nothing, on any input with a char
\* outside 0-9 and upper-case A-F.
OutsideUpperHexFails ==
    (Generated /\ \E i \in 1..Len(input) : input[i] \notin UpperHex)
    => (pc = "panic" /\ stream = <<>>)

\* C8 (amended): bits() fails, returning nothing, on any input with a char
\* that is no hexadecimal digit of either case (0-9, A-F, a-f).
NonHexDigitFails ==
    (Generated /\ \E i \in 1..Len(input) : input[i] \notin AnyCaseHex)
    => (pc = "panic" /\ stream = <<>>)

\* C8 witness: bits("1G") has panicked.
FailedOnG ==
    /\ input = <<49, 71>>
    /\ pc = "panic"

\* C9: for a string of hexadecimal digits bits() returns 4 * length booleans,
\* positions 4i..4i+3 being the i-th digit's value, most-significant bit first.
DigitsExpandMsbFirst ==
    (Generated /\ \A i \in 1..Len(input) : input[i] \in AnyCaseHex)
    => ( /\ pc = "bits"
         /\ Len(stream) = 4 * Len(input)
         /\ \A i \in 1..Len(input) : \A j \in 0..3 :
               stream[4 * (i - 1) + j + 1]
                   = ((RefDigit(input[i]) \div (2 ^ (3 - j))) % 2 = 1) )

\* C9 witness: bits("1A") is 0001 1010.
ExpandedOneA ==
    /\ input = <<49, 65>>
    /\ pc = "bits"
    /\ stream = <<FALSE, FALSE, FALSE, TRUE, TRUE, FALSE, TRUE, FALSE>>

IsLiteralHeader(st) == Len(st) >= 6 /\ RefNat(SubSeq(st, 4, 6)) = 4
\* position of the leading bit of the j-th 5-bit group of a literal packet
GroupStart(j) == 6 + 5 * (j - 1) + 1
\* the k-th group is the first whose leading bit is 0, and it is complete
EndsAtGroup(st, k) ==
    /\ 6 + 5 * k <= Len(st)
    /\ ~st[GroupStart(k)]
    /\ \A j \in 1..(k - 1) : st[GroupStart(j)]
\* the payload bits of groups 1..k, concatenated, as a number
RefLiteral(st, k) ==
    SumSeq([n \in 1..(4 * k) |->
              IF st[GroupStart(((n - 1) \div 4) + 1) + ((n - 1) % 4) + 1]
              THEN 2 ^ (4 * k - n) ELSE 0])

\* C10: on a packet with type_id 4 whose first group with leading bit 0 is the
\* k-th, parse_packet returns the literal made of the 4 payload bits of the k
\* groups, the version of the first 3 bits, and the offset 6 + 5k.
LiteralDecoded ==
    (Parsed /\ IsLiteralHeader(stream))
    => \A k \in 1..(Len(stream) \div 5) :
          EndsAtGroup(stream, k)
          => ( /\ parsed.ok
               /\ parsed.next = 6 + 5 * k
               /\ parsed.packet.version = RefNat(SubSeq(stream, 1, 3))
               /\ parsed.packet.type_id = 4
               /\ parsed.packet.data.kind = "Literal"
               /\ parsed.packet.data.literal = RefLiteral(stream, k) )

\* C10 witness: D2FE28 has been parsed: version 6, value 2021, 21 bits read.
ParsedD2FE28 ==
    /\ stream = bits(<<68, 50, 70, 69, 50, 56>>).stream
    /\ pc = "part1"
    /\ parsed.ok
    /\ parsed.packet.version = 6
    /\ parsed.packet.data.literal = 2021
    /\ parsed.next = 21
    /\ answer = Value(6)

(***************************************************************************)
(* day16: where a parsed tree lies in the stream.  Offsets count bits from *)
(* 0; the bit at offset p is st[p + 1].  The positions follow the tree     *)
(* that was returned, not the loops that built it.                         *)
(***************************************************************************)
\* the w-bit field at offset p, as a number
RefField(st, p, w) == RefNat(SubSeq(st, p + 1, p + w))

\* the offset after the groups of a literal that start at offset p: after the
\* first group whose leading bit is 0; -1 when the stream ends before
RECURSIVE RefLiteralEnd(_, _)
RefLiteralEnd(st, p) ==
    IF p < 0 \/ p + 5 > Len(st) THEN -1
    ELSE IF ~st[p + 1] THEN p + 5
    ELSE RefLiteralEnd(st, p + 5)

\* bits of an operator before its first child: 6 of header, the length type
\* bit, and 15 or 11 bits of length
HeaderBits(st, p) == IF st[p + 7] THEN 18 ELSE 22

RECURSIVE EndOf(_, _, _)
RECURSIVE ChildStart(_, _, _, _)

\* the offset where the i-th child of the operator `packet` at offset p
\* starts when the children follow one another without a gap
ChildStart(st, p, packet, i) ==
    IF i = 1 THEN p + HeaderBits(st, p)
    ELSE EndOf(st, ChildStart(st, p, packet, i - 1), packet.data.packets[i - 1])

\* the offset after the packet `packet` laid at offset p; -1 when it does not
\* fit in the stream
EndOf(st, p, packet) ==
    IF p < 0 \/ p + 7 > Len(st) THEN -1
    ELSE IF packet.data.kind = "Literal" THEN RefLiteralEnd(st, p + 6)
    ELSE ChildStart(st, p, packet, Len(packet.data.packets) + 1)

\* the tree `packet` is what the stream holds at offset p: each node's
\* version, type and literal value are the fields at its own offset, the
\* children lying one after the other
RECURSIVE ReadInPlace(_, _, _)
ReadInPlace(st, p, packet) ==
    /\ p >= 0
    /\ p + 6 <= Len(st)
    /\ packet.version = RefField(st, p, 3)
    /\ packet.type_id = RefField(st, p + 3, 3)
    /\ IF packet.data.kind = "Literal"
       THEN /\ packet.type_id = 4
            /\ RefLiteralEnd(st, p + 6) # -1
            /\ packet.data.literal =
                 RefLiteral(SubSeq(st, p + 1, Len(st)),
                            (RefLiteralEnd(st, p + 6) - p - 6) \div 5)
       ELSE /\ packet.type_id # 4
            /\ p + 7 <= Len(st)
            /\ p + HeaderBits(st, p) <= Len(st)
            /\ \A i \in 1..Len(packet.data.packets) :
                  ReadInPlace(st, ChildStart(st, p, packet, i), packet.data.packets[i])

IsType1Operator(st) ==
    Len(st) >= 18 /\ RefNat(SubSeq(st, 4, 6)) # 4 /\ st[7]
DeclaredCount(st) == RefNat(SubSeq(st, 8, 18))

\* C11: for a length-type-1 operator whose 11-bit field holds n, a parse that
\* succeeds returns exactly n children, and the i-th child is the packet the
\* stream holds where the (i-1)-th ended, the first one at offset 18.
CountedChildrenParsed ==
    (Parsed /\ parsed.ok /\ IsType1Operator(stream))
    => ( /\ parsed.packet.data.kind = "Packets"
         /\ Len(parsed.packet.data.packets) = DeclaredCount(stream)
         /\ \A i \in 1..Len(parsed.packet.data.packets) :
               ReadInPlace(stream, ChildStart(stream, 0, parsed.packet, i),
                           parsed.packet.data.packets[i]) )

\* C11 witness: a sum operator declaring 3 children has been parsed into 3
\* children, the last one an operator of 2 children.
ParsedThreeCounted ==
    /\ Parsed
    /\ stream = EncOp1(7, 0, 3, EncLiteral(1, <<1>>) \o EncLiteral(5, <<1, 4>>)
                                \o EncOp1(3, 0, 2, EncLiteral(1, <<1>>) \o EncLiteral(5, <<1, 4>>)))
    /\ parsed.ok
    /\ Len(parsed.packet.data.packets) = 3
    /\ Len(parsed.packet.data.packets[3].data.packets) = 2
    /\ parsed.next = Len(stream)

(***************************************************************************)
(* day16: reference evaluation of a packet tree, children first.           *)
(***************************************************************************)
\* f[1] + ... + f[n] and f[1] * ... * f[n]
RECURSIVE RefSumTo(_, _)
RefSumTo(f, n) == IF n = 0 THEN 0 ELSE RefSumTo(f, n - 1) + f[n]
RECURSIVE RefProductTo(_, _)
RefProductTo(f, n) == IF n = 0 THEN 1 ELSE RefProductTo(f, n - 1) * f[n]

\* comparison operators have exactly two children, minimum and maximum at
\* least one, at every node of the tree
RECURSIVE WellFormed(_)
WellFormed(packet) ==
    IF packet.type_id = 4 THEN packet.data.kind = "Literal"
    ELSE /\ packet.data.kind = "Packets"
         /\ packet.type_id \in {5, 6, 7} => Len(packet.data.packets) = 2
         /\ packet.type_id \in {2, 3} => Len(packet.data.packets) >= 1
         /\ \A i \in 1..Len(packet.data.packets) : WellFormed(packet.data.packets[i])

\* the value of a well-formed tree
RECURSIVE RefValue(_)
RefValue(packet) ==
    LET n  == Len(packet.data.packets)
        vs == [i \in 1..n |-> RefValue(packet.data.packets[i])]
    IN  CASE packet.type_id = 0 -> RefSumTo(vs, n)
          [] packet.type_id = 1 -> RefProductTo(vs, n)
          [] packet.type_id = 2 -> CHOOSE m \in 0..RefSumTo(vs, n) :
                                      /\ \E i \in 1..n : vs[i] = m
                                      /\ \A i \in 1..n : vs[i] >= m
          [] packet.type_id = 3 -> CHOOSE m \in 0..RefSumTo(vs, n) :
                                      /\ \E i \in 1..n : vs[i] = m
                                      /\ \A i \in 1..n : vs[i] <= m
          [] packet.type_id = 4 -> packet.data.literal
          [] packet.type_id = 5 -> IF vs[1] > vs[2] THEN 1 ELSE 0
          [] packet.type_id = 6 -> IF vs[1] < vs[2] THEN 1 ELSE 0
          [] packet.type_id = 7 -> IF vs[1] = vs[2] THEN 1 ELSE 0

\* C12: on a well-formed tree process_packet returns the reference value:
\* sum, product, minimum, maximum of the children's values, the literal, or
\* 1 / 0 for child[0] >, <, == child[1].
EvaluatesToReference ==
    (pc = "part2" /\ parsed.ok /\ WellFormed(parsed.packet))
    => answer = Value(RefValue(parsed.packet))

\* C12 witness: 9C0141080250320F1802104A08 (1 + 3 == 2 * 2) evaluates to 1.
Evaluated9C01 ==
    /\ pc = "part2"
    /\ stream = bits(<<57, 67, 48, 49, 52, 49, 48, 56, 48, 50, 53, 48, 51, 50, 48,
                       70, 49, 56, 48, 50, 49, 48, 52, 65, 48, 56>>).stream
    /\ parsed.ok
    /\ parsed.packet.type_id = 7
    /\ WellFormed(parsed.packet)
    /\ answer = Value(1)

\* some node of the tree is a comparison whose child count is not 2, or a
\* minimum / maximum without children
RECURSIVE HasMalformedOperator(_)
HasMalformedOperator(packet) ==
    \/ packet.type_id \in {5, 6, 7} /\ Len(packet.data.packets) # 2
    \/ packet.type_id \in {2, 3} /\ Len(packet.data.packets) = 0
    \/ \E i \in 1..Len(packet.data.packets) : HasMalformedOperator(packet.data.packets[i])

\* C13: evaluation returns no value whenever the parsed tree contains a
\* comparison whose child count is not 2 or a minimum / maximum with no child.
MalformedOperatorFails ==
    (pc = "part2" /\ parsed.ok /\ HasMalformedOperator(parsed.packet))
    => ~answer.ok

\* C13 witness: a sum of a literal and of a less-than with a single child has
\* been parsed, and its evaluation failed.
FailedOnNestedComparison ==
    /\ pc = "part2"
    /\ stream = EncOp1(7, 0, 2, EncLiteral(1, <<1>>) \o EncOp1(2, 6, 1, EncLiteral(1, <<1>>)))
    /\ parsed.ok
    /\ parsed.packet.type_id = 0
    /\ Len(parsed.packet.data.packets[2].data.packets) = 1
    /\ ~answer.ok

\* the version fields of the nodes of the tree, parents first
RECURSIVE AllVersions(_)
AllVersions(packet) ==
    <<packet.version>>
      \o Concat([i \in 1..Len(packet.data.packets) |-> AllVersions(packet.data.packets[i])])

\* C14: for every packet the parser produced, sum_packet_versions is the sum
\* of the version fields of all the packets of the tree, and is at least the
\* root's own version.
VersionSumOverTree ==
    (pc = "part1" /\ parsed.ok)
    => ( /\ answer.ok
         /\ answer.value = RefSumTo(AllVersions(parsed.packet),
                                    Len(AllVersions(parsed.packet)))
         /\ answer.value >= parsed.packet.version )

\* C14 witness: A0016C880162017C3686B18A3D4780 has the version sum 31 over
\* eight packets.
SummedA0016C ==
    /\ pc = "part1"
    /\ stream = bits(<<65, 48, 48, 49, 54, 67, 56, 56, 48, 49, 54, 50, 48, 49, 55,
                       67, 51, 54, 56, 54, 66, 49, 56, 65, 51, 68, 52, 55, 56, 48>>).stream
    /\ parsed.ok
    /\ Len(AllVersions(parsed.packet)) = 8
    /\ answer = Value(31)

\* what may follow a complete packet
Tails == SeqsOf(BOOLEAN, 0, MaxTail)

\* the stream up to the end of its outermost packet, followed by tail
WithTail(tail) == SubSeq(stream, 1, parsed.next) \o tail

\* C15: when the stream starts with a complete outermost packet, the version
\* sum and the evaluated value are those of the packet alone and of the packet
\* followed by any other bits.
TrailingBitsIgnored ==
    (Parsed /\ parsed.ok)
    => \A tail \in Tails :
          /\ pc = "part1" => day16_part1(WithTail(tail)) = answer
          /\ pc = "part2" => day16_part2(WithTail(tail)) = answer

\* C15 witness: D2FE28 ends with three bits of padding after its 21-bit
\* literal; part2 gave 2021.
EvaluatedWithPadding ==
    /\ pc = "part2"
    /\ stream = bits(<<68, 50, 70, 69, 50, 56>>).stream
    /\ parsed.ok
    /\ parsed.next = 21
    /\ Len(stream) = 24
    /\ answer = Value(2021)

\* C16 (as claimed): every operator packet that parse_packet returns has at
\* least one child.
OperatorsHaveChildren ==
    (Parsed /\ parsed.ok /\ parsed.packet.type_id # 4)
    => Len(parsed.packet.data.packets) >= 1

\* the stream cut after its first k bits
CutAt(k) == SubSeq(stream, 1, k)

\* C17: a stream that ends before its outermost packet is complete makes
\* parse_packet fail: wherever a complete packet is cut short (in the header,
\* in the length field, in a literal group or before its last group, before
\* the last declared child), the parse of what is left fails.
CutPacketFails ==
    (Parsed /\ parsed.ok)
    => \A k \in 0..(parsed.next - 1) : ~parse_packet(CutAt(k)).ok

\* C17 witness: a counted operator of two literals, the second of two groups,
\* is complete at 45 bits; cut in the header, in the count, between the
\* children and in the last group it does not parse.
CutCountedOperator ==
    /\ Parsed
    /\ stream = EncOp1(7, 0, 2, EncLiteral(1, <<1>>) \o EncLiteral(5, <<1, 4>>))
    /\ parsed.ok
    /\ parsed.next = 45
    /\ ~parse_packet(CutAt(5)).ok
    /\ ~parse_packet(CutAt(17)).ok
    /\ ~parse_packet(CutAt(29)).ok
    /\ ~parse_packet(CutAt(40)).ok
    /\ ~parse_packet(CutAt(44)).ok

(***************************************************************************)
(* day22: Region::split on its own, stated on unit cells.                  *)
(***************************************************************************)
\* the cells of the boxes of a list, and the boxes sharing no cell
CellsOfList(rs) == UNION {BoxCells(rs[i]) : i \in 1..Len(rs)}
NoSharedCell(rs) ==
    \A i \in 1..Len(rs) : \A j \in 1..Len(rs) :
        i # j => BoxCells(rs[i]) \cap BoxCells(rs[j]) = {}
VolOfList(rs) == RefSumTo([i \in 1..Len(rs) |-> Vol(rs[i])], Len(rs))

\* the S-list and the N-list the split returned, and its operands
SplitS == splits[1].self
SplitN == splits[1].other
SList == splits[1].result.self_regions
NList == splits[1].result.other_regions

\* C18: split(S, N) of two boxes that share a cell passes its assert! and
\* returns non-empty boxes, no two of which share a cell; the N-list covers
\* exactly N and the S-list exactly S minus N (so a candidate inside both is
\* in the N-list), with volumes vol(N) and vol(S) - vol(S /\ N); the N-pieces
\* carry N's tag and the S-pieces S's.
SplitTilesOperands ==
    (Len(splits) = 1 /\ InterVol(SplitS, SplitN) > 0)
    => ( /\ splits[1].result.ok
         /\ \A i \in 1..Len(SList \o NList) : BoxCells((SList \o NList)[i]) # {}
         /\ NoSharedCell(SList \o NList)
         /\ CellsOfList(NList) = BoxCells(SplitN)
         /\ CellsOfList(SList) = BoxCells(SplitS) \ BoxCells(SplitN)
         /\ VolOfList(NList) = Vol(SplitN)
         /\ VolOfList(SList) = Vol(SplitS) - InterVol(SplitS, SplitN)
         /\ \A i \in 1..Len(NList) : NList[i].on = SplitN.on
         /\ \A i \in 1..Len(SList) : SList[i].on = SplitS.on )

\* C18 witness: an on box and an off box overlapping at one corner cell are
\* split into 7 on pieces and 8 off pieces.
SplitAtCorner ==
    /\ Len(splits) = 1
    /\ SplitS = from_command(Cmd(TRUE, 0, 1, 0, 1, 0, 1))
    /\ SplitN = from_command(Cmd(FALSE, 1, 2, 1, 2, 1, 2))
    /\ Len(SList) = 7
    /\ Len(NList) = 8
    /\ splits[1].result.ok

\* C19: parse_packet returns the packet with the offset right after it: the
\* tree is what the stream holds from offset 0, each child starting where the
\* previous one ended, the first after the header and the length field, and
\* the returned offset is the end of the last child (header plus length field
\* plus the lengths of the children).
OffsetsFollowTheTree ==
    (Parsed /\ parsed.ok)
    => ( /\ ReadInPlace(stream, 0, parsed.packet)
         /\ parsed.next = EndOf(stream, 0, parsed.packet)
         /\ parsed.next <= Len(stream) )

\* C19 witness: an operator of 72 declared bits holding an 11-bit literal, a
\* 16-bit literal and a 45-bit operator ends at 22 + 11 + 16 + 45 = 94.
ParsedNestedSpans ==
    /\ Parsed
    /\ stream = EncOp0(7, 0, 72, EncLiteral(1, <<1>>) \o EncLiteral(5, <<1, 4>>)
                                 \o EncOp1(3, 0, 2, EncLiteral(1, <<1>>) \o EncLiteral(5, <<1, 4>>)))
    /\ parsed.ok
    /\ ChildStart(stream, 0, parsed.packet, 2) = 33
    /\ ChildStart(stream, 0, parsed.packet, 3) = 49
    /\ parsed.next = 94

\* C20: after any sequence of insertions every region stored directly under
\* the root is tagged on.
RootChildrenAreOn ==
    \A i \in 1..Len(root.sub_regions) : root.sub_regions[i].on

\* C20 witness: an off box was cut out of the middle of an on row; the two
\* ends of the row are stored, both on.
OffCutLeavesOnPieces ==
    /\ commands = <<Cmd(TRUE, 0, 2, 0, 0, 0, 0), Cmd(FALSE, 1, 1, 0, 0, 0, 0)>>
    /\ ~panicked
    /\ Len(root.sub_regions) = 2
    /\ \A i \in 1..2 : root.sub_regions[i].on

(***************************************************************************)
(* day22: one insertion, stated on the unit cells of the boxes stored      *)
(* before and after it.                                                    *)
(***************************************************************************)
\* a step that executed one more command on an engine that had not aborted
Inserted == ~panicked /\ Len(commands') = Len(commands) + 1
\* the command that step executed
Incoming == commands'[Len(commands')]

\* the stored regions that do not lie wholly inside the box b
NotInside(trie_root, b) ==
    SelectSeq(trie_root.sub_regions, LAMBDA r : ~(BoxCells(r) \subseteq BoxCells(b)))

\* the cells covered by a stored region, whatever its tag
StoredCells(trie_root) ==
    UNION {BoxCells(trie_root.sub_regions[i]) : i \in 1..Len(trie_root.sub_regions)}

\* C21: when the inserted box N shares no cell with a sibling that is left
\* once those inside N are dropped, the child list becomes those siblings,
\* followed by N exactly when N is on (the root is off); an off box sharing
\* no cell with any sibling leaves the child list and count_on() unchanged.
LoneBoxPushedWhenOn ==
    [][ Inserted =>
          /\ (CellsOfList(NotInside(root, Incoming)) \cap BoxCells(Incoming) = {})
             => ( /\ ~panicked'
                  /\ root'.sub_regions =
                       NotInside(root, Incoming)
                         \o (IF Incoming.turn_on THEN <<from_command(Incoming)>> ELSE <<>>) )
          /\ (~Incoming.turn_on /\ StoredCells(root) \cap BoxCells(Incoming) = {})
             => ( /\ ~panicked'
                  /\ root'.sub_regions = root.sub_regions
                  /\ count_on(root') = count_on(root) ) ]_vars

\* C21 witness: on a cell, off a cell apart from it (nothing is stored for
\* it), then on that same cell (it is appended).
OffIgnoredThenOnPushed ==
    /\ commands = <<Cmd(TRUE, 0, 0, 0, 0, 0, 0), Cmd(FALSE, 2, 2, 0, 0, 0, 0),
                    Cmd(TRUE, 2, 2, 0, 0, 0, 0)>>
    /\ ~panicked
    /\ root.sub_regions = <<from_command(Cmd(TRUE, 0, 0, 0, 0, 0, 0)),
                            from_command(Cmd(TRUE, 2, 2, 0, 0, 0, 0))>>
    /\ count_on(root) = 2

\* how many times the box of r is stored in the list rs
Occurrences(rs, r) ==
    Cardinality({i \in 1..Len(rs) : rs[i].xr = r.xr /\ rs[i].yr = r.yr /\ rs[i].zr = r.zr})

\* the engine after the first iteration of the loop of add_region on the box
\* of the command c
FirstIteration(trie_root, c) ==
    add_region_step(trie_root.on,
                    [sub_regions |-> trie_root.sub_regions,
                     regions |-> <<from_command(c)>>,
                     panic |-> FALSE])

\* that iteration pushed the box of c itself
PushedWhole(trie_root, c) ==
    /\ FirstIteration(trie_root, c).regions = <<>>
    /\ Len(FirstIteration(trie_root, c).sub_regions) > 0
    /\ FirstIteration(trie_root, c).sub_regions[Len(FirstIteration(trie_root, c).sub_regions)]
         = from_command(c)

\* C22: inserting N drops every sibling that lies wholly inside N before
\* anything is split: after the first iteration of the loop none of them is in
\* the child list (a box equal to N is there once, as N itself, when N was
\* pushed), and once the insertion is complete the only regions stored inside
\* N are those N put there: none when N is off.
ContainedSiblingsDropped ==
    [][ Inserted =>
          \A k \in 1..Len(root.sub_regions) :
             (BoxCells(root.sub_regions[k]) \subseteq BoxCells(Incoming))
             => ( /\ Occurrences(FirstIteration(root, Incoming).sub_regions, root.sub_regions[k])
                       = (IF /\ PushedWhole(root, Incoming)
                             /\ BoxCells(root.sub_regions[k]) = BoxCells(Incoming)
                          THEN 1 ELSE 0)
                  /\ ~panicked'
                  /\ Occurrences(root'.sub_regions, root.sub_regions[k])
                       <= (IF Incoming.turn_on THEN 1 ELSE 0) ) ]_vars

\* C22 witness: two separate on cells, then an on row covering both: the two
\* cells are gone and the row alone is stored.
RowSupersedesCells ==
    /\ commands = <<Cmd(TRUE, 0, 0, 0, 0, 0, 0), Cmd(TRUE, 2, 2, 0, 0, 0, 0),
                    Cmd(TRUE, 0, 2, 0, 0, 0, 0)>>
    /\ ~panicked
    /\ root.sub_regions = <<from_command(Cmd(TRUE, 0, 2, 0, 0, 0, 0))>>

(***************************************************************************)
(* day22: the bounded mode of part1, stated on intervals.                  *)
(***************************************************************************)
\* the part of the range r that lies in -50..50
InCube(r) == <<Max2(r[1], -50), Min2(r[2], 50)>>
LiesInCube(b) ==
    \A r \in {b.xr, b.yr, b.zr} : -50 <= r[1] /\ r[1] <= r[2] /\ r[2] <= 50

\* C23: for a command that passed inside_init, restrict is the intersection
\* of its box with the cube -50..50 on every axis, the flag unchanged; the
\* box inserted lies inside the cube and is not empty, and every stored region
\* lies inside the cube.
RestrictIntersectsCube ==
    (Len(commands) >= 1 /\ ~skipped)
    => ( /\ restrict(LastCommand) =
              [xr |-> InCube(LastCommand.xr), yr |-> InCube(LastCommand.yr),
               zr |-> InCube(LastCommand.zr), turn_on |-> LastCommand.turn_on]
         /\ LiesInCube(restrict(LastCommand))
         /\ ~panicked
         /\ \A i \in 1..Len(root.sub_regions) : LiesInCube(root.sub_regions[i])
         /\ (LastCommand.turn_on /\ Len(commands) = 1)
            => root.sub_regions = <<from_command(restrict(LastCommand))>> )

\* C23 witness: a box reaching out of the cube on three faces was inserted
\* clipped to them.
ClippedAtThreeFaces ==
    /\ commands = <<Cmd(TRUE, -51, -50, 0, 51, 50, 51)>>
    /\ ~skipped
    /\ root.sub_regions = <<from_command(Cmd(TRUE, -50, -50, 0, 50, 50, 50))>>
    /\ count_on(root) = 51

(***************************************************************************)
(* day22: volume() written out level by level for regions at most two      *)
(* levels deep.                                                            *)
(***************************************************************************)
IsUniverse(r) ==
    \A a \in {r.xr, r.yr, r.zr} : a = <<I64_MIN, I64_MAX>>
\* a box less its sub-regions, these being plain boxes
LessBoxes(r) ==
    Vol(r) - RefSumTo([i \in 1..Len(r.sub_regions) |-> Vol(r.sub_regions[i])],
                      Len(r.sub_regions))
\* a box less its sub-regions, these being boxes less their own boxes
LessRegions(r) ==
    Vol(r) - RefSumTo([i \in 1..Len(r.sub_regions) |-> LessBoxes(r.sub_regions[i])],
                      Len(r.sub_regions))

\* C24: volume() of a region other than the universe root is the product of
\* its three inclusive extents less the volume() of each of its sub-regions;
\* volume() of the universe root is 0; count_on() is the sum of volume() over
\* the direct children of the root.
VolumeLessSubRegions ==
    Len(measured) = 1
    => ( /\ (measured[1].of = "volume" /\ IsUniverse(measured[1].region))
            => measured[1].result = 0
         /\ (measured[1].of = "volume" /\ ~IsUniverse(measured[1].region))
            => measured[1].result = LessRegions(measured[1].region)
         /\ measured[1].of = "count_on"
            => measured[1].result =
                 RefSumTo([i \in 1..Len(measured[1].region.sub_regions) |->
                              LessBoxes(measured[1].region.sub_regions[i])],
                          Len(measured[1].region.sub_regions)) )

\* C24 witness: a 3 x 2 box holding a 3 x 2 box that holds a 2 x 2 box
\* measures 6 - (6 - 4) = 4.
MeasuredTwoLevels ==
    /\ Len(measured) = 1
    /\ measured[1].of = "volume"
    /\ measured[1].region =
         WithSubRegions(region_new(<<0, 2>>, <<0, 1>>, <<0, 0>>, FALSE),
           << WithSubRegions(region_new(<<0, 2>>, <<0, 1>>, <<0, 0>>, TRUE),
                             <<region_new(<<1, 2>>, <<0, 1>>, <<0, 0>>, FALSE)>>) >>)
    /\ measured[1].result = 4

\* the cells a region of the work-list wl shares with a sibling of subs,
\* summed over the pairs
Overlap(subs, wl) ==
    RefSumTo([i \in 1..Len(wl) |->
                 RefSumTo([j \in 1..Len(subs) |-> InterVol(wl[i], subs[j])], Len(subs))],
             Len(wl))

\* a natural number that every iteration lowers: a split takes at least one
\* cell off the overlap and adds at most 27 regions to each list; an
\* iteration without a split takes a region off the work-list and adds at
\* most one sibling
Variant(subs, wl) == (3 * 27 + 1) * Overlap(subs, wl) + 2 * Len(wl) + Len(subs)

\* the iteration that leads to st passes its assert! and lowers the variant
Lowers(st) ==
    /\ ~st.panic
    /\ Variant(st.sub_regions, st.regions) < Variant(root.sub_regions, worklist)

\* C25: the loop of add_region, started on a box with lo <= hi in an engine
\* whose siblings are pairwise disjoint, ends on an empty work-list: while
\* the work-list is not empty the next iteration passes its assert! and
\* lowers a natural number, which can happen finitely many times only.
IterationLowersVariant ==
    (worklist # <<>> /\ ~panicked)
    => Lowers(add_region_step(root.on, [sub_regions |-> root.sub_regions,
                                        regions |-> worklist,
                                        panic |-> FALSE]))

\* C25 witness: the loop has ended on four regions holding five cells, as
\* after a 2 x 2 box and a 2 x 1 box that share a cell.
LoopEndedAfterSplit ==
    /\ worklist = <<>>
    /\ ~panicked
    /\ Len(commands) = 1
    /\ Len(root.sub_regions) = 4
    /\ count_on(root) = 5
    /\ NoSharedCell(root.sub_regions)

\* the cells of the set cells that lie outside the box b
Outside(cells, b) == cells \ BoxCells(b)

\* C26: an insertion of the box N leaves every cell outside N as it was: such
\* a cell is on afterwards exactly when it was on before, and is covered by a
\* stored region afterwards exactly when it was covered before.
CellsOutsideBoxKept ==
    [][Inserted
       => ( /\ ~panicked'
            /\ Outside(OnCells(root'), Incoming) = Outside(OnCells(root), Incoming)
            /\ Outside(StoredCells(root'), Incoming)
                   = Outside(StoredCells(root), Incoming) )]_vars

\* C26 witness: an off cell cut out of the middle of a row of three and an on
\* cell set beside the row: the two end cells of the row and the new cell are
\* on.
MiddleCutThenCellBeside ==
    /\ commands = <<Cmd(TRUE, 0, 2, 0, 0, 0, 0), Cmd(FALSE, 1, 1, 0, 1, 0, 0),
                    Cmd(TRUE, 1, 1, 1, 1, 0, 0)>>
    /\ ~panicked
    /\ OnCells(root) = {<<0, 0, 0>>, <<2, 0, 0>>, <<1, 1, 0>>}

\* the stored regions that share a cell with the box b
Sharing(trie_root, b) ==
    SelectSeq(trie_root.sub_regions, LAMBDA r : BoxCells(r) \cap BoxCells(b) # {})

\* C27: once the insertion of the box N is complete, every stored region that
\* shares a cell with N lies inside N, and the volumes of those regions add
\* up to vol(N) when N is on; when N is off there is no such region.
InsideBoxAfterInsertion ==
    [][Inserted
       => ( /\ ~panicked'
            /\ \A i \in 1..Len(Sharing(root', Incoming)) :
                  BoxCells(Sharing(root', Incoming)[i]) \subseteq BoxCells(Incoming)
            /\ Incoming.turn_on
               => VolOfList(Sharing(root', Incoming)) = Vol(Incoming)
            /\ ~Incoming.turn_on => Sharing(root', Incoming) = <<>> )]_vars

\* C27 witness: on 0..1 x 0..1, then on 1..2 x 1..2 whose corner cell is
\* already stored, then off 0..1 x 0..0: the second insertion has left more
\* than one region inside its box, the third none.
CornerFilledThenRowCleared ==
    /\ commands = <<Cmd(TRUE, 0, 1, 0, 1, 0, 0), Cmd(TRUE, 1, 2, 1, 2, 0, 0),
                    Cmd(FALSE, 0, 1, 0, 0, 0, 0)>>
    /\ ~panicked
    /\ Sharing(root, commands[3]) = <<>>
    /\ Len(Sharing(root, commands[2])) > 1
    /\ count_on(root) = 5

\* C28: after any sequence of insertions through RegionTrie::add_region every
\* region stored under the root has an empty sub_regions list, and count_on()
\* is the plain sum of the box volumes of the root's children.
StoredRegionsAreLeaves ==
    /\ \A i \in 1..Len(root.sub_regions) : root.sub_regions[i].sub_regions = <<>>
    /\ count_on(root) = VolOfList(root.sub_regions)

\* C28 witness: the first three commands of the small example have been
\* executed, the off box having split both on boxes; the pieces stored are
\* leaves.
SmallExampleCutIntoLeaves ==
    /\ commands = <<SmallExample[1], SmallExample[2], SmallExample[3]>>
    /\ ~panicked
    /\ Len(root.sub_regions) > 2
    /\ \A i \in 1..Len(root.sub_regions) : root.sub_regions[i].sub_regions = <<>>
    /\ count_on(root) = 38

\* the command c has lo > hi on some axis
Inverted(c) == c.xr[1] > c.xr[2] \/ c.yr[1] > c.yr[2] \/ c.zr[1] > c.zr[2]

\* C29: inserting a command that is inverted on some axis, in a state reached
\* by commands with lo <= hi, completes, leaves count_on() as it was, keeps
\* the siblings pairwise disjoint and leaves count_on() at 0 or more.
InvertedBoxChangesNothing ==
    [][(Inserted /\ Inverted(Incoming) /\ \A i \in 1..Len(commands) : ~Inverted(commands[i]))
       => ( /\ ~panicked'
            /\ count_on(root') = count_on(root)
            /\ NoSharedCell(root'.sub_regions)
            /\ count_on(root') >= 0 )]_vars

(***************************************************************************)
(* day22: the executed commands run again on a fresh engine in another     *)
(* order.                                                                  *)
(***************************************************************************)
\* the run that has executed one more command with the result res, after a
\* run that had aborted or not
ReplayNext(aborted, res) ==
    [root |-> res.root, panic |-> aborted \/ res.panic \/ ~res.finished]

\* the commands cmds executed in order on a fresh engine
RECURSIVE Replay(_)
Replay(cmds) ==
    IF cmds = <<>> THEN [root |-> trie_new, panic |-> FALSE]
    ELSE LET prev == Replay(SubSeq(cmds, 1, Len(cmds) - 1))
         IN  ReplayNext(prev.panic, execute_command(prev.root, cmds[Len(cmds)]))

\* the commands cmds with the last two exchanged
LastTwoSwapped(cmds) ==
    SubSeq(cmds, 1, Len(cmds) - 2) \o <<cmds[Len(cmds)], cmds[Len(cmds) - 1]>>

\* the last two commands executed are both on or both off
LastTwoAlike ==
    /\ Len(commands) >= 2
    /\ commands[Len(commands)].turn_on = commands[Len(commands) - 1].turn_on

\* C30: when the last two commands executed are both on or both off,
\* executing them in the other order from the state before them completes
\* and gives the same count_on().
SameTagCommute ==
    (LastTwoAlike /\ ~panicked)
    => ( /\ ~Replay(LastTwoSwapped(commands)).panic
         /\ count_on(Replay(LastTwoSwapped(commands)).root) = count_on(root) )

\* C30 witness: two on squares that share the cell already on cover seven
\* cells in either order, stored as different boxes.
TwoOnSquaresEitherOrder ==
    /\ commands = <<Cmd(TRUE, 1, 1, 1, 1, 0, 0), Cmd(TRUE, 0, 1, 0, 1, 0, 0),
                    Cmd(TRUE, 1, 2, 1, 2, 0, 0)>>
    /\ ~panicked
    /\ count_on(root) = 7
    /\ count_on(Replay(LastTwoSwapped(commands)).root) = 7
    /\ Replay(LastTwoSwapped(commands)).root # root
====
